---- MODULE Spec2Model ----
(***************************************************************************)
(* Model of async-std-FetchStockData/src/main.rs: the StockSignal trait    *)
(* with its four implementations (PriceDifference, MinPrice, MaxPrice,     *)
(* WindowedSMA), fetch_closing_data and the per-symbol loop of main.       *)
(*                                                                         *)
(* f64 values are modelled as exact rationals n/d (kind "fin") together    *)
(* with the IEEE-754 special values NaN, +inf, -inf and the two constants  *)
(* f64::MAX and f64::MIN, which are kept symbolic (kinds "fmax", "fmin"):  *)
(* every finite value of the model lies strictly between them.  Rounding   *)
(* of finite results is not modelled; comparison, min, max and the         *)
(* arithmetic of the special values follow IEEE-754.                       *)
(*                                                                         *)
(* SigSpec applies the four calculate functions to bounded series; Spec is *)
(* main: its stdout is the sequence of the println! calls with their       *)
(* arguments (the text formatting of a row is not modelled).               *)
(***************************************************************************)
EXTENDS Integers, Sequences, FiniteSets, TLC

(* ------------------------------ bounds --------------------------------- *)
MaxLen == 3
MaxWindow == 4
MaxSymbols == 3

(* ------------------------------- f64 ----------------------------------- *)
RECURSIVE Gcd(_, _)
Gcd(a, b) == IF b = 0 THEN a ELSE Gcd(b, a % b)

Abs(x) == IF x < 0 THEN -x ELSE x

Fin(n, d) ==
  LET s == IF d < 0 THEN -1 ELSE 1
      g == Gcd(Abs(n), Abs(d))
  IN  [k |-> "fin", n |-> (s * n) \div g, d |-> (s * d) \div g]

NaN == [k |-> "nan", n |-> 0, d |-> 1]
PInf == [k |-> "pinf", n |-> 0, d |-> 1]
NInf == [k |-> "ninf", n |-> 0, d |-> 1]
F64_MAX == [k |-> "fmax", n |-> 0, d |-> 1]
F64_MIN == [k |-> "fmin", n |-> 0, d |-> 1]
Zero == Fin(0, 1)
One == Fin(1, 1)

IsNaN(a) == a.k = "nan"
IsFinite(a) == a.k \in {"fin", "fmax", "fmin"}

Rank(a) ==
  CASE a.k = "ninf" -> 0
    [] a.k = "fmin" -> 1
    [] a.k = "fin" -> 2
    [] a.k = "fmax" -> 3
    [] a.k = "pinf" -> 4

\* a < b, a <= b and a == b of f64: false as soon as one side is NaN
FLt(a, b) ==
  /\ ~IsNaN(a)
  /\ ~IsNaN(b)
  /\ IF a.k = "fin" /\ b.k = "fin" THEN a.n * b.d < b.n * a.d
     ELSE Rank(a) < Rank(b)

FEq(a, b) == ~IsNaN(a) /\ ~IsNaN(b) /\ a = b

FLe(a, b) == FLt(a, b) \/ FEq(a, b)

Sign(a) ==
  CASE a.k = "pinf" -> 1
    [] a.k = "ninf" -> -1
    [] a.k = "fin" -> (IF a.n < 0 THEN -1 ELSE IF a.n > 0 THEN 1 ELSE 0)

Inf(s) == IF s < 0 THEN NInf ELSE PInf

FNeg(a) ==
  CASE a.k = "nan" -> NaN
    [] a.k = "pinf" -> NInf
    [] a.k = "ninf" -> PInf
    [] a.k = "fin" -> Fin(-a.n, a.d)

FAdd(a, b) ==
  CASE IsNaN(a) \/ IsNaN(b) -> NaN
    [] a.k = "fin" /\ b.k = "fin" -> Fin(a.n * b.d + b.n * a.d, a.d * b.d)
    [] a.k = "fin" /\ b.k # "fin" -> b
    [] a.k # "fin" /\ b.k = "fin" -> a
    [] OTHER -> IF a.k = b.k THEN a ELSE NaN

FSub(a, b) == FAdd(a, FNeg(b))

FDiv(a, b) ==
  CASE IsNaN(a) \/ IsNaN(b) -> NaN
    [] a.k = "fin" /\ b.k = "fin" ->
         IF b.n = 0
         THEN (IF a.n = 0 THEN NaN ELSE Inf(Sign(a)))
         ELSE Fin(a.n * b.d, a.d * b.n)
    [] a.k = "fin" /\ b.k # "fin" -> Zero
    [] a.k # "fin" /\ b.k = "fin" ->
         Inf(Sign(a) * (IF b.n < 0 THEN -1 ELSE 1))
    [] OTHER -> NaN

FMul(a, b) ==
  CASE IsNaN(a) \/ IsNaN(b) -> NaN
    [] a.k = "fin" /\ b.k = "fin" -> Fin(a.n * b.n, a.d * b.d)
    [] OTHER -> IF Sign(a) * Sign(b) = 0 THEN NaN ELSE Inf(Sign(a) * Sign(b))

\* f64::min and f64::max: a NaN operand is ignored
f64_min(a, b) ==
  IF IsNaN(a) THEN b ELSE IF IsNaN(b) THEN a ELSE IF FLt(b, a) THEN b ELSE a

f64_max(a, b) ==
  IF IsNaN(a) THEN b ELSE IF IsNaN(b) THEN a ELSE IF FLt(a, b) THEN b ELSE a

(* ------------------------ Option and outcomes -------------------------- *)
None == [tag |-> "None"]
Some(v) == [tag |-> "Some", v |-> v]
Panic == [tag |-> "Panic"]

IsSome(r) == r.tag = "Some"

(* --------------------------- iterator helpers -------------------------- *)
\* TLC evaluates the arguments of an operator when they are first used;
\* Forced(x) has x evaluated on the spot, which keeps the evaluation of a
\* fold over a long slice shallow
Forced(x) == x = x

\* iter().fold(init, |acc, q| acc.min(*q)) over s[lo..hi]: the elements are
\* taken from left to right, each combined with the accumulator so far (the
\* range is halved only to bound the depth of the evaluation)
RECURSIVE FoldMinRange(_, _, _, _)
FoldMinRange(acc, s, lo, hi) ==
  IF Forced(acc) /\ lo > hi THEN acc
  ELSE IF lo = hi THEN f64_min(acc, s[lo])
  ELSE FoldMinRange(FoldMinRange(acc, s, lo, (lo + hi) \div 2), s, (lo + hi) \div 2 + 1, hi)

RECURSIVE FoldMaxRange(_, _, _, _)
FoldMaxRange(acc, s, lo, hi) ==
  IF Forced(acc) /\ lo > hi THEN acc
  ELSE IF lo = hi THEN f64_max(acc, s[lo])
  ELSE FoldMaxRange(FoldMaxRange(acc, s, lo, (lo + hi) \div 2), s, (lo + hi) \div 2 + 1, hi)

RECURSIVE SumRange(_, _, _, _)
SumRange(acc, s, lo, hi) ==
  IF Forced(acc) /\ lo > hi THEN acc
  ELSE IF lo = hi THEN FAdd(acc, s[lo])
  ELSE SumRange(SumRange(acc, s, lo, (lo + hi) \div 2), s, (lo + hi) \div 2 + 1, hi)

FoldMin(init, s) == FoldMinRange(init, s, 1, Len(s))

FoldMax(init, s) == FoldMaxRange(init, s, 1, Len(s))

\* Iterator::sum::<f64>(): a left fold from 0.0
Sum(s) == SumRange(Zero, s, 1, Len(s))

\* a bug to be detected: the windows are produced from right to left
Windows_reversed(s, n) ==
  IF Len(s) < n THEN <<>>
  ELSE [j \in 1..(Len(s) - n + 1) |-> SubSeq(s, Len(s) - n + 2 - j, Len(s) + 1 - j)]

\* slice::windows(n), n >= 1: all contiguous windows of length n, in order
Windows(s, n) ==
  IF Len(s) < n THEN <<>>
  ELSE [j \in 1..(Len(s) - n + 1) |-> SubSeq(s, j, j + n - 1)]

(* ----------------------------- the signals ----------------------------- *)
\* a bug to be detected: the zero-base divisor policy is forgotten
PriceDifference_calculate_noZeroPolicy(s) ==
  IF s # <<>>
  THEN LET abs_diff == FSub(s[Len(s)], s[1])
       IN  Some(<<abs_diff, FDiv(abs_diff, s[1])>>)
  ELSE None

PriceDifference_calculate(s) ==
  IF s # <<>>
  THEN LET first == s[1]
           last == s[Len(s)]
           abs_diff == FSub(last, first)
           first2 == IF FEq(first, Zero) THEN One ELSE first
           rel_diff == FDiv(abs_diff, first2)
       IN  Some(<<abs_diff, rel_diff>>)
  ELSE None

\* a bug to be detected: the emptiness test is forgotten
MaxPrice_calculate_noEmptyCheck(s) == Some(FoldMax(F64_MIN, s))

MaxPrice_calculate(s) ==
  IF s # <<>> THEN Some(FoldMax(F64_MIN, s)) ELSE None

\* a bug to be detected: the fold takes the running maximum
MinPrice_calculate_foldMax(s) ==
  IF s = <<>> THEN None ELSE Some(FoldMax(F64_MAX, s))

MinPrice_calculate(s) ==
  IF s = <<>> THEN None ELSE Some(FoldMin(F64_MAX, s))

\* a bug to be detected: the guard admits a window of one element
WindowedSMA_calculate_guardGe1(n, s) ==
  IF s # <<>> /\ n >= 1
  THEN LET ws == Windows(s, n)
       IN  Some([j \in 1..Len(ws) |-> FDiv(Sum(ws[j]), Fin(Len(ws[j]), 1))])
  ELSE None

\* slice::windows panics when the size is 0
WindowedSMA_calculate(n, s) ==
  IF s # <<>> /\ n > 1
  THEN IF n = 0 THEN Panic
       ELSE LET ws == Windows(s, n)
            IN  Some([j \in 1..Len(ws) |-> FDiv(Sum(ws[j]), Fin(Len(ws[j]), 1))])
  ELSE None

(* ------------------------ fetch_closing_data --------------------------- *)
Ok(v) == [tag |-> "Ok", v |-> v]
Err(kind) == [tag |-> "Err", kind |-> kind]
InvalidData == "InvalidData"

Quote(ts, close) == [timestamp |-> ts, adjclose |-> close]

\* q is put behind the quotes of sorted whose timestamp is not larger
InsertByKey(sorted, q) ==
  LET p == Cardinality({k \in 1..Len(sorted) : sorted[k].timestamp <= q.timestamp})
  IN  SubSeq(sorted, 1, p) \o <<q>> \o SubSeq(sorted, p + 1, Len(sorted))

\* the quotes qs[lo..hi] inserted one by one, from left to right, into acc
RECURSIVE InsertRange(_, _, _, _)
InsertRange(acc, qs, lo, hi) ==
  IF Forced(acc) /\ lo > hi THEN acc
  ELSE IF lo = hi THEN InsertByKey(acc, qs[lo])
  ELSE InsertRange(InsertRange(acc, qs, lo, (lo + hi) \div 2), qs, (lo + hi) \div 2 + 1, hi)

\* Vec::sort_by_cached_key(|k| k.timestamp): a stable sort by timestamp
SortByTimestamp(qs) == InsertRange(<<>>, qs, 1, Len(qs))

\* a bug to be detected: a failed download is read as "no quotes"
fetch_closing_data_swallow(resp) ==
  IF resp.history # "ok" \/ resp.quotes # "ok" THEN Ok(<<>>)
  ELSE IF resp.data # <<>>
       THEN LET sorted == SortByTimestamp(resp.data)
            IN  Ok([j \in 1..Len(sorted) |-> sorted[j].adjclose])
       ELSE Ok(<<>>)

\* resp is what the YahooConnector answers: resp.history and resp.quotes say
\* whether get_quote_history and quotes() succeed, resp.data are the quotes
fetch_closing_data(resp) ==
  IF resp.history # "ok" THEN Err(InvalidData)
  ELSE IF resp.quotes # "ok" THEN Err(InvalidData)
  ELSE IF resp.data # <<>>
       THEN LET sorted == SortByTimestamp(resp.data)
            IN  Ok([j \in 1..Len(sorted) |-> sorted[j].adjclose])
       ELSE Ok(<<>>)

(* ------------------------------ inputs --------------------------------- *)
WINDOW_SIZE == 30

Vals == {Zero, One, Fin(-2, 1), NaN, PInf}

\* the series of the unit tests of main.rs
TestSeriesA == <<Fin(2, 1), Fin(3, 1), Fin(5, 1), Fin(6, 1), Fin(1, 1), Fin(2, 1), Fin(10, 1)>>
TestSeriesB == <<Fin(0, 1), Fin(3, 1), Fin(5, 1), Fin(6, 1), Fin(1, 1), Fin(2, 1), Fin(1, 1)>>
TestSeriesC == <<Fin(1, 1), Fin(0, 1)>>
TestSeriesSMA == <<Fin(2, 1), Fin(45, 10), Fin(53, 10), Fin(65, 10), Fin(47, 10)>>
TestSeries == {TestSeriesA, TestSeriesB, TestSeriesC, TestSeriesSMA}
TestWindows == {5, 10}

SeriesUpTo(n) == UNION {[1..l -> Vals] : l \in 0..n}

SignalNames == {"PriceDifference", "MinPrice", "MaxPrice", "WindowedSMA"}

\* a series of n finite prices that are not all equal
LongSeries(n) == [j \in 1..n |-> Fin((j * j) % 7, 1)]

QuotesOf(s) == [j \in 1..Len(s) |-> Quote(j, s[j])]

OkResponse(data) == [history |-> "ok", quotes |-> "ok", data |-> data]

\* the answers the data source can give to one request, by name
Requests ==
  {"history_error", "quotes_error", "no_quotes", "two_unsorted",
   "one_short", "exact", "one_more"}

DataSource(name) ==
  CASE name = "history_error" -> [history |-> "err", quotes |-> "ok", data |-> <<>>]
    [] name = "quotes_error" -> [history |-> "ok", quotes |-> "err", data |-> <<>>]
    [] name = "no_quotes" -> OkResponse(<<>>)
    [] name = "two_unsorted" -> OkResponse(<<Quote(2, Fin(3, 1)), Quote(1, One)>>)
    [] name = "one_short" -> OkResponse(QuotesOf(LongSeries(WINDOW_SIZE - 1)))
    [] name = "exact" -> OkResponse(QuotesOf(LongSeries(WINDOW_SIZE)))
    [] name = "one_more" -> OkResponse(QuotesOf(LongSeries(WINDOW_SIZE + 1)))

\* the default of --symbols, split at the commas
DefaultSymbols == <<"AAPL", "MSFT", "UBER", "GOOG">>

FromArgs == {"2020-07-01T00:00:00Z", "yesterday"}

\* opts.from.parse::<DateTime<Utc>>() followed by to_rfc3339()
ParseFrom(s) ==
  IF s = "2020-07-01T00:00:00Z" THEN Some("2020-07-01T00:00:00+00:00") ELSE None

(* ------------------------------- state --------------------------------- *)
VARIABLES
  series,       \* the slice handed to calculate
  window_size,  \* WindowedSMA.window_size
  called,       \* the signals whose calculate has returned
  res,          \* the value each calculate returned
  symbols,      \* opts.symbols.split(',')
  from_arg,     \* opts.from
  provider,     \* which answer the data source gives to the i-th request
  pc,           \* position of main
  i,            \* number of symbols the loop has taken
  closes,       \* the series of the current iteration
  out,          \* the lines written to stdout
  result,       \* what main returned
  min, max, diffence, sma   \* the signal objects main constructs

vars == <<series, window_size, called, res, symbols, from_arg, provider, pc, i,
          closes, out, result, min, max, diffence, sma>>

sigVars == <<series, window_size, called, res>>
mainVars == <<symbols, from_arg, provider, pc, i, closes, out, result,
              min, max, diffence, sma>>

NoSignal == [type |-> "none", window_size |-> 0]
NoResult == [tag |-> "Running"]

(* -------------- the signals applied to bounded inputs ------------------ *)
SigIdle ==
  /\ symbols = <<>> /\ from_arg = "" /\ provider = <<>> /\ pc = "idle" /\ i = 0
  /\ closes = <<>> /\ out = <<>> /\ result = NoResult
  /\ min = NoSignal /\ max = NoSignal /\ diffence = NoSignal /\ sma = NoSignal

SigInit ==
  /\ series \in SeriesUpTo(MaxLen) \cup TestSeries
  /\ window_size \in (0..MaxWindow) \cup TestWindows
  /\ called = {}
  /\ res = [s \in SignalNames |-> None]
  /\ SigIdle

\* each action is one call of calculate(&self, series: &[f64]): it reads the
\* object and the slice and changes neither
CalcPriceDifference ==
  /\ called' = called \cup {"PriceDifference"}
  /\ res' = [res EXCEPT !["PriceDifference"] = PriceDifference_calculate(series)]
  /\ UNCHANGED <<series, window_size>>
  /\ UNCHANGED mainVars

CalcMinPrice ==
  /\ called' = called \cup {"MinPrice"}
  /\ res' = [res EXCEPT !["MinPrice"] = MinPrice_calculate(series)]
  /\ UNCHANGED <<series, window_size>>
  /\ UNCHANGED mainVars

CalcMaxPrice ==
  /\ called' = called \cup {"MaxPrice"}
  /\ res' = [res EXCEPT !["MaxPrice"] = MaxPrice_calculate(series)]
  /\ UNCHANGED <<series, window_size>>
  /\ UNCHANGED mainVars

CalcWindowedSMA ==
  /\ called' = called \cup {"WindowedSMA"}
  /\ res' = [res EXCEPT !["WindowedSMA"] = WindowedSMA_calculate(window_size, series)]
  /\ UNCHANGED <<series, window_size>>
  /\ UNCHANGED mainVars

SigNext == CalcPriceDifference \/ CalcMinPrice \/ CalcMaxPrice \/ CalcWindowedSMA

SigSpec == SigInit /\ [][SigNext]_vars

(* ------------------------------- main ---------------------------------- *)
Banner == [line |-> "banner"]
Header == [line |-> "period start,symbol,price,change %,min,max,30d avg"]

\* the arguments of the println! that writes one row
Row(start, symbol, last_price, pct, period_min, period_max, avg) ==
  [line |-> "row", start |-> start, symbol |-> symbol, price |-> last_price,
   pct |-> pct, min |-> period_min, max |-> period_max, avg |-> avg]

\* StockSignal::calculate, dispatched on the type of the object
Calculate(signal, s) ==
  CASE signal.type = "PriceDifference" -> PriceDifference_calculate(s)
    [] signal.type = "MinPrice" -> MinPrice_calculate(s)
    [] signal.type = "MaxPrice" -> MaxPrice_calculate(s)
    [] signal.type = "WindowedSMA" -> WindowedSMA_calculate(signal.window_size, s)

unwrap_or(r, default) == IF IsSome(r) THEN r.v ELSE default

\* the symbol lists tried: the first l default symbols (repeated cyclically
\* beyond the fourth); a symbol name is only ever copied into its row
SymbolLists ==
  {[j \in 1..l |-> DefaultSymbols[((j - 1) % Len(DefaultSymbols)) + 1]] : l \in 1..MaxSymbols}

Init ==
  /\ symbols \in SymbolLists
  /\ from_arg \in FromArgs
  /\ provider \in [1..Len(symbols) -> Requests]
  /\ pc = "start"
  /\ i = 0
  /\ closes = <<>>
  /\ out = <<>>
  /\ result = NoResult
  /\ min = NoSignal /\ max = NoSignal /\ diffence = NoSignal /\ sma = NoSignal
  /\ series = <<>> /\ window_size = 0 /\ called = {}
  /\ res = [s \in SignalNames |-> None]

\* lines 152-186: banner, arguments, the four signal objects, the header;
\* an unparsable 'from' makes expect() panic before the header is written
Start ==
  /\ pc = "start"
  /\ IF IsSome(ParseFrom(from_arg))
     THEN /\ min' = [type |-> "MinPrice", window_size |-> 0]
          /\ max' = [type |-> "MinPrice", window_size |-> 0]
          /\ diffence' = [type |-> "PriceDifference", window_size |-> 0]
          /\ sma' = [type |-> "WindowedSMA", window_size |-> WINDOW_SIZE]
          /\ out' = <<Banner, Header>>
          /\ pc' = "loop"
     ELSE /\ out' = <<Banner>>
          /\ pc' = "panicked"
          /\ UNCHANGED <<min, max, diffence, sma>>
  /\ UNCHANGED <<symbols, from_arg, provider, i, closes, result>>
  /\ UNCHANGED sigVars

\* line 190: fetch_closing_data(..).await? with an Ok result
FetchOk ==
  /\ pc = "loop"
  /\ i < Len(symbols)
  /\ LET r == fetch_closing_data(DataSource(provider[i + 1]))
     IN  /\ r.tag = "Ok"
         /\ closes' = r.v
  /\ i' = i + 1
  /\ pc' = "fetched"
  /\ UNCHANGED <<symbols, from_arg, provider, out, result, min, max, diffence, sma>>
  /\ UNCHANGED sigVars

\* line 190: the ? operator returns the error of fetch_closing_data from main
FetchErr ==
  /\ pc = "loop"
  /\ i < Len(symbols)
  /\ LET r == fetch_closing_data(DataSource(provider[i + 1]))
     IN  /\ r.tag = "Err"
         /\ result' = r
  /\ i' = i + 1
  /\ pc' = "done"
  /\ UNCHANGED <<symbols, from_arg, provider, closes, out, min, max, diffence, sma>>
  /\ UNCHANGED sigVars

\* a bug to be detected: the row shows the first moving average, not the last
EmitRow_firstAvg ==
  /\ pc = "fetched"
  /\ closes # <<>>
  /\ LET rmax == Calculate(max, closes)
         rmin == Calculate(min, closes)
         diff == unwrap_or(Calculate(diffence, closes), <<Zero, Zero>>)
         avgs == unwrap_or(Calculate(sma, closes), <<>>)
         avg == IF avgs = <<>> THEN Zero ELSE avgs[1]
     IN  out' = Append(out, Row(ParseFrom(from_arg).v, symbols[i], closes[Len(closes)],
                                FMul(diff[2], Fin(100, 1)), rmin.v, rmax.v, avg))
  /\ pc' = "loop"
  /\ UNCHANGED <<symbols, from_arg, provider, i, closes, result, min, max, diffence, sma>>
  /\ UNCHANGED sigVars

\* a bug to be detected: the moving average keeps state between calls (its
\* window shrinks to the length of the last series it saw)
EmitRow_stateful ==
  /\ pc = "fetched"
  /\ closes # <<>>
  /\ LET rmax == Calculate(max, closes)
         rmin == Calculate(min, closes)
         diff == unwrap_or(Calculate(diffence, closes), <<Zero, Zero>>)
         avgs == unwrap_or(Calculate(sma, closes), <<>>)
         avg == IF avgs = <<>> THEN Zero ELSE avgs[Len(avgs)]
     IN  out' = Append(out, Row(ParseFrom(from_arg).v, symbols[i], closes[Len(closes)],
                                FMul(diff[2], Fin(100, 1)), rmin.v, rmax.v, avg))
  /\ sma' = [sma EXCEPT !.window_size = IF Len(closes) < @ THEN Len(closes) ELSE @]
  /\ pc' = "loop"
  /\ UNCHANGED <<symbols, from_arg, provider, i, closes, result, min, max, diffence>>
  /\ UNCHANGED sigVars

\* lines 195-214: the body of `if !closes.is_empty()`
EmitRow ==
  /\ pc = "fetched"
  /\ closes # <<>>
  /\ LET rmax == Calculate(max, closes)
         rmin == Calculate(min, closes)
         last_price == closes[Len(closes)]
         diff == unwrap_or(Calculate(diffence, closes), <<Zero, Zero>>)
         pct_change == diff[2]
         avgs == unwrap_or(Calculate(sma, closes), <<>>)
         avg == IF avgs = <<>> THEN Zero ELSE avgs[Len(avgs)]
     IN  IF IsSome(rmax) /\ IsSome(rmin)
         THEN /\ out' = Append(out, Row(ParseFrom(from_arg).v, symbols[i], last_price,
                                        FMul(pct_change, Fin(100, 1)), rmin.v, rmax.v, avg))
              /\ pc' = "loop"
         ELSE /\ pc' = "panicked"
              /\ UNCHANGED out
  /\ UNCHANGED <<symbols, from_arg, provider, i, closes, result, min, max, diffence, sma>>
  /\ UNCHANGED sigVars

\* a bug to be detected: an empty series ends the loop
SkipEmpty_break ==
  /\ pc = "fetched"
  /\ closes = <<>>
  /\ result' = Ok(<<>>)
  /\ pc' = "done"
  /\ UNCHANGED <<symbols, from_arg, provider, i, closes, out, min, max, diffence, sma>>
  /\ UNCHANGED sigVars

\* line 195: an empty series writes nothing
SkipEmpty ==
  /\ pc = "fetched"
  /\ closes = <<>>
  /\ pc' = "loop"
  /\ UNCHANGED <<symbols, from_arg, provider, i, closes, out, result, min, max, diffence, sma>>
  /\ UNCHANGED sigVars

\* line 216: Ok(()) once the symbols are exhausted
Finish ==
  /\ pc = "loop"
  /\ i = Len(symbols)
  /\ result' = Ok(<<>>)
  /\ pc' = "done"
  /\ UNCHANGED <<symbols, from_arg, provider, i, closes, out, min, max, diffence, sma>>
  /\ UNCHANGED sigVars

Next == Start \/ FetchOk \/ FetchErr \/ EmitRow \/ SkipEmpty \/ Finish

Spec == Init /\ [][Next]_vars

(* ======================= properties of the signals ===================== *)
Elems(s) == {s[j] : j \in 1..Len(s)}

MinMaxReturned == {"MinPrice", "MaxPrice"} \subseteq called

\* C1 as stated: for every non-empty series, MinPrice returns m and MaxPrice
\* returns M with m <= x <= M for every element x of the series.
C1_MinMaxBoundEveryElement ==
  (MinMaxReturned /\ series # <<>>) =>
    /\ IsSome(res["MinPrice"])
    /\ IsSome(res["MaxPrice"])
    /\ \A x \in Elems(series) :
         FLe(res["MinPrice"].v, x) /\ FLe(x, res["MaxPrice"].v)

\* C1 amended: for every non-empty series, MinPrice returns m and MaxPrice
\* returns M with m <= x <= M for every element x of the series that is not
\* NaN (a NaN element compares with nothing and is skipped by the folds).
C1_MinMaxBoundNonNaN ==
  (MinMaxReturned /\ series # <<>>) =>
    /\ IsSome(res["MinPrice"])
    /\ IsSome(res["MaxPrice"])
    /\ \A x \in Elems(series) :
         ~IsNaN(x) => FLe(res["MinPrice"].v, x) /\ FLe(x, res["MaxPrice"].v)

C1_Witness ==
  /\ MinMaxReturned
  /\ Len(series) = 3
  /\ \E x \in Elems(series) : IsNaN(x)
  /\ \E x, y \in Elems(series) : FLt(x, y)
  /\ res["MinPrice"].v # res["MaxPrice"].v

Divisor(first) == IF FEq(first, Zero) THEN One ELSE first

DiffAsStated(s) ==
  LET abs == FSub(s[Len(s)], s[1])
  IN  <<abs, FDiv(abs, Divisor(s[1]))>>

\* C2 as stated: on a non-empty series PriceDifference returns (abs, rel),
\* abs = last - first, rel = abs / first with the divisor 1 when first is 0,
\* and every single-element series yields (0, 0).
C2_DifferenceEverySingleton ==
  ("PriceDifference" \in called /\ series # <<>>) =>
    /\ res["PriceDifference"] = Some(DiffAsStated(series))
    /\ Len(series) = 1 => res["PriceDifference"].v = <<Zero, Zero>>

\* C2 amended: on a non-empty series PriceDifference returns (abs, rel),
\* abs = last - first, rel = abs / first with the divisor 1 when first is 0
\* (so rel = abs), and every single-element series whose element is finite
\* yields (0, 0), the series [0] included; the unit tests' series give
\* (-1, -1), (8, 4) and (1, 1).
C2_DifferenceFiniteSingleton ==
  ("PriceDifference" \in called /\ series # <<>>) =>
    /\ res["PriceDifference"] = Some(DiffAsStated(series))
    /\ FEq(series[1], Zero) =>
         res["PriceDifference"].v[2] = res["PriceDifference"].v[1]
    /\ (Len(series) = 1 /\ IsFinite(series[1])) =>
         res["PriceDifference"].v = <<Zero, Zero>>
    /\ series = TestSeriesC =>
         res["PriceDifference"].v = <<Fin(-1, 1), Fin(-1, 1)>>
    /\ series = TestSeriesA =>
         res["PriceDifference"].v = <<Fin(8, 1), Fin(4, 1)>>
    /\ series = TestSeriesB =>
         res["PriceDifference"].v = <<One, One>>

C2_Witness ==
  /\ "PriceDifference" \in called
  /\ series = <<Zero>>
  /\ res["PriceDifference"] = Some(<<Zero, Zero>>)

SMAReturned == "WindowedSMA" \in called

\* C3: WindowedSMA returns absent exactly when the series is empty or the
\* window size is <= 1 (size 0 does not panic); otherwise it returns a
\* sequence of len - w + 1 values when len >= w and an empty sequence when
\* len < w.
C3_SMAAbsentExactly ==
  SMAReturned =>
    /\ res["WindowedSMA"] # Panic
    /\ (res["WindowedSMA"] = None) <=> (series = <<>> \/ window_size <= 1)
    /\ (series # <<>> /\ window_size > 1) =>
         /\ IsSome(res["WindowedSMA"])
         /\ Len(res["WindowedSMA"].v) =
              IF Len(series) >= window_size
              THEN Len(series) - window_size + 1 ELSE 0

C3_Witness ==
  /\ SMAReturned
  /\ series = TestSeriesSMA
  /\ window_size = 10
  /\ res["WindowedSMA"] = Some(<<>>)

\* S[lo] + ... + S[hi]
RECURSIVE SumIdx(_, _, _)
SumIdx(s, lo, hi) ==
  IF hi < lo THEN Zero
  ELSE IF lo = hi THEN s[lo]
  ELSE FAdd(SumIdx(s, lo, (lo + hi) \div 2), SumIdx(s, (lo + hi) \div 2 + 1, hi))

MeanAt(s, j, w) == FDiv(SumIdx(s, j, j + w - 1), Fin(w, 1))

\* C4: when WindowedSMA with window size w > 1 returns a sequence R, R[j] is
\* (S[j] + ... + S[j+w-1]) / w for every index j of R: the means of the
\* contiguous windows in the order of S, none skipped or repeated.
C4_SMAWindowMeans ==
  (SMAReturned /\ window_size > 1 /\ IsSome(res["WindowedSMA"])) =>
    LET R == res["WindowedSMA"].v
    IN  /\ \A j \in 1..Len(R) : R[j] = MeanAt(series, j, window_size)
        /\ Len(series) >= window_size => Len(R) = Len(series) - window_size + 1
        /\ (series = TestSeriesSMA /\ window_size = 3) =>
             R = <<Fin(59, 15), Fin(163, 30), Fin(11, 2)>>
        /\ (series = TestSeriesSMA /\ window_size = 5) => R = <<Fin(23, 5)>>

C4_Witness ==
  /\ SMAReturned
  /\ window_size = 2
  /\ Len(series) = 3
  /\ IsSome(res["WindowedSMA"])
  /\ Len(res["WindowedSMA"].v) = 2
  /\ res["WindowedSMA"].v[1] # res["WindowedSMA"].v[2]
  /\ \A x \in Elems(series) : x.k = "fin"

\* C5: every signal returns absent on the empty series; PriceDifference,
\* MinPrice and MaxPrice return a value on every non-empty series; no signal
\* fails in another way (none panics).
C5_AbsentOnEmptyOnly ==
  \A s \in called :
    /\ res[s] # Panic
    /\ res[s].tag \in {"None", "Some"}
    /\ series = <<>> => res[s] = None
    /\ (series # <<>> /\ s # "WindowedSMA") => IsSome(res[s])

C5_Witness ==
  /\ called = SignalNames
  /\ series = <<>>
  /\ window_size = 0
  /\ \A s \in SignalNames : res[s] = None

(* ========================= properties of main ========================== *)
InLoop == pc \in {"loop", "fetched", "done"}

Rows == SubSeq(out, 3, Len(out))

Fetched(j) == fetch_closing_data(DataSource(provider[j]))

HasRow(j) == Fetched(j).tag = "Ok" /\ Fetched(j).v # <<>>

\* the iterations whose body has run to its end
Completed == IF pc = "fetched" THEN i - 1 ELSE i

RECURSIVE RowIdxUpTo(_)
RowIdxUpTo(n) ==
  IF n = 0 THEN <<>>
  ELSE IF HasRow(n) THEN Append(RowIdxUpTo(n - 1), n) ELSE RowIdxUpTo(n - 1)

\* the iterations that had a non-empty series, in order
RowIdx == RowIdxUpTo(Completed)

\* the series of the symbol the k-th row is about
SeriesOfRow(k) == Fetched(RowIdx[k]).v

IsLeast(m, s) == m \in Elems(s) /\ \A x \in Elems(s) : FLe(m, x)
IsGreatest(m, s) == m \in Elems(s) /\ \A x \in Elems(s) : FLe(x, m)

\* C6: for every symbol with a non-empty series the row's 'max' field is the
\* largest element of the series and its 'min' field is the smallest.
C6_RowMinMaxAreExtremes ==
  InLoop =>
    \A k \in 1..Len(Rows) :
      /\ IsGreatest(Rows[k].max, SeriesOfRow(k))
      /\ IsLeast(Rows[k].min, SeriesOfRow(k))

\* C7: an empty series writes no row and raises no error, and the loop goes
\* on; when every retrieval succeeds main returns Ok and stdout holds one
\* header line followed by one row per symbol with a non-empty series, in
\* the order of the symbols.
C7_RowsAreNonEmptySymbols ==
  InLoop =>
    /\ Len(out) >= 2 /\ out[1] = Banner /\ out[2] = Header
    /\ Len(Rows) = Len(RowIdx)
    /\ \A k \in 1..Len(Rows) :
         Rows[k].line = "row" /\ Rows[k].symbol = symbols[RowIdx[k]]
    /\ (pc = "done" /\ result.tag = "Err") => Fetched(i).tag = "Err"
    /\ (pc = "done" /\ \A j \in 1..Len(symbols) : Fetched(j).tag = "Ok") =>
         /\ result = Ok(<<>>)
         /\ i = Len(symbols)
         /\ RowIdx = RowIdxUpTo(Len(symbols))

C7_Witness ==
  /\ pc = "done"
  /\ result = Ok(<<>>)
  /\ Len(symbols) = 3
  /\ symbols[1] # symbols[3]
  /\ HasRow(1) /\ Fetched(2) = Ok(<<>>) /\ HasRow(3)
  /\ Len(Rows) = 2
  /\ Rows[1].symbol = symbols[1] /\ Rows[2].symbol = symbols[3]

\* C8: each row's '30d avg' field is the last value of WindowedSMA with window
\* 30 over the series: the mean of the last 30 prices when the series has at
\* least 30, and 0.0 when it has fewer; 'price' is the last element of the
\* series and 'change %' is 100 times PriceDifference's relative difference.
C8_RowAvgPriceChange ==
  InLoop =>
    \A k \in 1..Len(Rows) :
      LET S == SeriesOfRow(k)
      IN  /\ Rows[k].avg =
               IF Len(S) >= 30 THEN MeanAt(S, Len(S) - 29, 30) ELSE Zero
          /\ Rows[k].price = S[Len(S)]
          /\ Rows[k].pct = FMul(Fin(100, 1), PriceDifference_calculate(S).v[2])

C8_Witness ==
  /\ Len(Rows) = 2
  /\ Len(SeriesOfRow(1)) = 31
  /\ Rows[1].avg = MeanAt(SeriesOfRow(1), 2, 30)
  /\ Rows[1].avg # MeanAt(SeriesOfRow(1), 1, 30)
  /\ Len(SeriesOfRow(2)) = 29
  /\ Rows[2].avg = Zero

SameButSymbol(r1, r2) == [r1 EXCEPT !.symbol = ""] = [r2 EXCEPT !.symbol = ""]

RowsDependOnSeriesOnly ==
  InLoop =>
    \A k \in 1..Len(Rows) : \A l \in (k + 1)..Len(Rows) :
      SeriesOfRow(k) = SeriesOfRow(l) => SameButSymbol(Rows[k], Rows[l])

\* C9: the signals carry no hidden state: once constructed the signal objects
\* never change, computing a row leaves the series unchanged, and two rows
\* about the same series (and start date) are identical but for the symbol,
\* whatever was processed before them.
C9_SignalsPure ==
  /\ []RowsDependOnSeriesOnly
  /\ [][pc # "start" => UNCHANGED <<min, max, diffence, sma>>]_vars
  /\ [][pc = "fetched" => closes' = closes]_vars

C9_Witness ==
  /\ pc = "done"
  /\ Len(Rows) = 3
  /\ SeriesOfRow(1) = SeriesOfRow(3)
  /\ SeriesOfRow(1) # SeriesOfRow(2)
  /\ Len(SeriesOfRow(2)) < Len(SeriesOfRow(1))
  /\ Rows[1].symbol # Rows[3].symbol
  /\ Rows[1].avg # Rows[2].avg

Failing(resp) == resp.history = "err" \/ resp.quotes = "err"

\* C10: when the retrieval fails for a symbol, fetch_closing_data returns an
\* InvalidData error, not an empty series, and main returns that error at
\* once: no row for that symbol or a later one, the header and the earlier
\* rows stay; the failure is never taken for an empty series.
C10_FailureEndsMain ==
  InLoop =>
    /\ \A j \in 1..i :
         Failing(DataSource(provider[j])) =>
           /\ Fetched(j) = Err(InvalidData)
           /\ j = i
           /\ pc = "done"
           /\ result = Err(InvalidData)
    /\ (pc = "done" /\ result.tag = "Err") =>
         /\ Failing(DataSource(provider[i]))
         /\ out[1] = Banner /\ out[2] = Header
         /\ Len(Rows) = Len(RowIdxUpTo(i - 1))
         /\ \A k \in 1..Len(Rows) : Rows[k].symbol = symbols[RowIdxUpTo(i - 1)[k]]

C10_Witness ==
  /\ pc = "done"
  /\ result = Err(InvalidData)
  /\ Len(symbols) = 3
  /\ i = 2
  /\ provider[2] = "quotes_error"
  /\ HasRow(3)
  /\ Len(Rows) = 1
  /\ Rows[1].symbol = symbols[1]

====
